---------------------------- MODULE Spec2Model ----------------------------
(***************************************************************************)
(* A model of the robot delivery system (delivery_system.cpp):             *)
(*   - Graph: construction from a distance matrix, UpdateOrders,           *)
(*     GetOrderList and ShortestPath (Dijkstra over a std::priority_queue  *)
(*     of node ids whose comparator reads the live dist[] array);          *)
(*   - TaskQueue: the capacity batching of its constructor, PerformTasks   *)
(*     and Task::DisplayPath.                                              *)
(* Edge weights are doubles in the program; the model draws them from      *)
(* small integers (sums and comparisons of small integers are exact in     *)
(* double arithmetic, so nothing is lost on this range).                   *)
(* Vectors are 0-based in the program and 1-based here: element i of a     *)
(* vector v is v[i + 1].                                                   *)
(***************************************************************************)
EXTENDS Integers, Sequences, FiniteSets, TLC

VARIABLES
    dist_matrix,   \* the matrix handed to Graph::Graph (rows may be ragged)
    graph,         \* "unbuilt" | "built" | "crashed": outcome of Graph::Graph
    nodes,         \* Graph::_nodes: sequence of [id, edges, num_orders]
    sp_pc,         \* position in Graph::ShortestPath
    nodeIndex1,    \* ShortestPath's arguments
    nodeIndex2,
    verbose,
    dist,          \* ShortestPath's locals
    prev,
    pq,            \* the priority_queue's underlying vector (a binary heap)
    u,
    path,
    sp_ret,        \* the value ShortestPath returned
    out,           \* what has been written to cout
    orders,        \* the order vector handed to TaskQueue::TaskQueue
    robot,         \* the Robot handed to TaskQueue::TaskQueue
    queue,         \* TaskQueue::_queue: sequence of [robot_id, delivery_orders]
    tq_pc,         \* "none" | "built" | "tasks" | "display" | "leg"
    i_task,        \* PerformTasks' loop index i
    i_leg          \* DisplayPath's loop index i

vars == <<dist_matrix, graph, nodes, sp_pc, nodeIndex1, nodeIndex2, verbose,
          dist, prev, pq, u, path, sp_ret, out, orders, robot, queue, tq_pc,
          i_task, i_leg>>

graph_vars == <<dist_matrix, graph, nodes>>
sp_vars    == <<sp_pc, nodeIndex1, nodeIndex2, verbose, dist, prev, pq, u,
                path, sp_ret>>
tq_vars    == <<orders, robot, queue, tq_pc, i_task, i_leg>>

---------------------------------------------------------------------------
(* Bounds of the model *)

\* largest graph of the shortest-path specification
MaxNodes == 4
\* edge weights of the shortest-path specification are the odd numbers up to
\* MaxWeight (0 stands for "no edge")
MaxWeight == 5

\* number of houses of the delivery specification (main has 10; node 0 is
\* the store)
MaxHouses == 3
\* the ring weights of generate_dist_matrix, rand()/RAND_MAX, are scaled to
\* 0..MaxRingWeight
MaxRingWeight == 1

\* the value standing for numeric_limits<double>::infinity(): larger than the
\* weight of any path the model can build
Infinity == (MaxNodes + MaxHouses + 1) * (MaxWeight + MaxRingWeight) + 1

---------------------------------------------------------------------------
(* Graph::Graph *)

\* const double epsilon = 1e-6: over integer weights, dist > epsilon is dist > 0
ExceedsEpsilon(d) == d > 0

\* the matrix is square: every row is as long as the number of rows
IsSquare(m) == \A r \in 1..Len(m) : Len(m[r]) = Len(m)

\* the (row, column) positions, 0-based, that the constructor's loops read
\* but that lie beyond the end of their row
OutOfBounds(m) ==
    {p \in (0..Len(m) - 1) \X (0..Len(m) - 1) : p[2] >= Len(m[p[1] + 1])}

\* dist_matrix[i][j] as the loop reads it; `fill` gives the value an
\* out-of-bounds read produces
Entry(m, fill, i, j) ==
    IF <<i, j>> \in OutOfBounds(m) THEN fill[<<i, j>>] ELSE m[i + 1][j + 1]

RECURSIVE RowEdges(_, _, _, _)
\* the inner loop over j for row i, from column j on: AddEdge for every
\* entry above epsilon, in column order
RowEdges(m, fill, i, j) ==
    IF j >= Len(m) THEN <<>>
    ELSE (IF ExceedsEpsilon(Entry(m, fill, i, j))
            THEN <<[node |-> j, distance |-> Entry(m, fill, i, j)]>>
            ELSE <<>>)
         \o RowEdges(m, fill, i, j + 1)

\* the node vector the constructor leaves in _nodes
BuildNodes(m, fill) ==
    [k \in 1..Len(m) |->
        [id |-> k - 1, edges |-> RowEdges(m, fill, k - 1, 0), num_orders |-> 0]]

\* values an out-of-bounds read of a vector<double> can produce
GarbageValues == {0, 1}

Graph_Construct ==
    /\ graph = "unbuilt"
    /\ IF OutOfBounds(dist_matrix) = {}
         THEN /\ graph' = "built"
              /\ nodes' = BuildNodes(dist_matrix, <<>>)
         ELSE \* undefined behaviour: the read faults, or yields some value
              \E crash \in BOOLEAN :
                IF crash
                  THEN graph' = "crashed" /\ nodes' = <<>>
                  ELSE \E fill \in [OutOfBounds(dist_matrix) -> GarbageValues] :
                         /\ graph' = "built"
                         /\ nodes' = BuildNodes(dist_matrix, fill)
    /\ UNCHANGED <<dist_matrix, out>>
    /\ UNCHANGED sp_vars
    /\ UNCHANGED tq_vars

NumNodes == Len(nodes)

NodeIds == 0..NumNodes - 1


---------------------------------------------------------------------------
(* The priority queue of Graph::ShortestPath.                              *)
(* std::priority_queue<int, vector<int>, cmp> keeps its vector as a binary *)
(* heap through std::push_heap and std::pop_heap; cmp reads dist[] by      *)
(* reference, so an entry's key changes under the heap when dist[] is      *)
(* lowered.  The operators follow the heap algorithms of the build's      *)
(* standard library (libstdc++: __push_heap, __adjust_heap, __pop_heap),   *)
(* which only compare and move elements of the vector.                     *)

\* cmp(left, right): dist[left] > dist[right]
cmp(d, left, right) == d[left] > d[right]

RECURSIVE PushHeap(_, _, _, _, _)
\* __push_heap: move the hole up while the parent compares after the value
PushHeap(h, holeIndex, topIndex, value, d) ==
    LET parent == (holeIndex - 1) \div 2 IN
    IF holeIndex > topIndex /\ cmp(d, h[parent + 1], value)
      THEN PushHeap([h EXCEPT ![holeIndex + 1] = h[parent + 1]],
                    parent, topIndex, value, d)
      ELSE [h EXCEPT ![holeIndex + 1] = value]

\* pq.push(v): push_back, then push_heap
PqPush(h, v, d) == PushHeap(Append(h, v), Len(h), 0, v, d)

RECURSIVE AdjustDown(_, _, _, _)
\* the while loop of __adjust_heap: the hole moves down to the child that
\* compares first; returns the vector and the hole
AdjustDown(h, holeIndex, len, d) ==
    IF holeIndex < (len - 1) \div 2
      THEN LET right == 2 * (holeIndex + 1)
               secondChild == IF cmp(d, h[right + 1], h[right])
                                THEN right - 1 ELSE right
           IN  AdjustDown([h EXCEPT ![holeIndex + 1] = h[secondChild + 1]],
                          secondChild, len, d)
      ELSE [vec |-> h, hole |-> holeIndex]

\* __adjust_heap(first, 0, len, value)
AdjustHeap(h, len, value, d) ==
    LET down == AdjustDown(h, 0, len, d)
        last == IF len % 2 = 0 /\ down.hole = (len - 2) \div 2
                  THEN LET secondChild == 2 * (down.hole + 1) IN
                       [vec |-> [down.vec EXCEPT ![down.hole + 1] =
                                     down.vec[secondChild]],
                        hole |-> secondChild - 1]
                  ELSE down
    IN  PushHeap(last.vec, last.hole, 0, value, d)

\* pq.top()
PqTop(h) == h[1]

\* a loop body without pq.pop(): the frontier keeps the node it just read
PqPop_NoRemove(h, d) == h

\* pq.pop(): pop_heap (the last element takes the root's place and is sifted
\* in), then pop_back
PqPop(h, d) ==
    IF Len(h) > 1
      THEN LET value == h[Len(h)]
               moved == [h EXCEPT ![Len(h)] = h[1]]
           IN  SubSeq(AdjustHeap(moved, Len(h) - 1, value, d), 1, Len(h) - 1)
      ELSE <<>>

---------------------------------------------------------------------------
(* Graph::ShortestPath *)

\* lines 172-179: the body of the loop over the edges of node uu, for the
\* edge e; st holds dist, prev and pq
RelaxEdge(e, uu, st) ==
    LET v   == e.node
        alt == st.dist[uu] + e.distance
    IN  IF alt < st.dist[v]
          THEN LET nd == [st.dist EXCEPT ![v] = alt] IN
               [dist |-> nd,
                prev |-> [st.prev EXCEPT ![v] = uu],
                pq   |-> PqPush(st.pq, v, nd)]
          ELSE st

RECURSIVE Relax(_, _, _, _)
\* lines 171-180: the loop over the edges of node uu, from edge k on; the
\* state that edge k leaves is the state the next edge starts from
Relax(es, k, uu, st) ==
    IF k > Len(es) THEN st
    ELSE CHOOSE end \in {Relax(es, k + 1, uu, next) :
                            next \in {RelaxEdge(es[k], uu, st)}} : TRUE

\* the locals of ShortestPath when no call is active
SP_Idle ==
    /\ sp_pc = "idle"
    /\ nodeIndex1 = -1 /\ nodeIndex2 = -1 /\ verbose = 0
    /\ dist = <<>> /\ prev = <<>> /\ pq = <<>> /\ u = -1 /\ path = <<>>
    /\ sp_ret = 0

\* lines 145-160: the call, up to pq.push(nodeIndex1)
SP_Call(s, d, vb) ==
    /\ graph = "built"
    /\ sp_pc = "idle"
    /\ s \in NodeIds /\ d \in NodeIds
    /\ sp_pc' = "loop"
    /\ nodeIndex1' = s /\ nodeIndex2' = d /\ verbose' = vb
    /\ dist' = [n \in NodeIds |-> IF n = s THEN 0 ELSE Infinity]
    /\ prev' = [n \in NodeIds |-> -1]
    /\ pq' = <<s>>
    /\ u' = -1 /\ path' = <<>> /\ sp_ret' = 0

\* lines 163-182: one iteration of while (!pq.empty())
SP_Loop ==
    /\ sp_pc = "loop"
    /\ IF pq = <<>>
         THEN /\ sp_pc' = "check"
              /\ UNCHANGED <<dist, prev, pq, u>>
         ELSE LET top  == PqTop(pq)
                  rest == PqPop(pq, dist)
              IN  /\ u' = top
                  /\ IF top = nodeIndex2
                       THEN /\ sp_pc' = "check"
                            /\ pq' = rest
                            /\ UNCHANGED <<dist, prev>>
                       ELSE \E st \in {Relax(nodes[top + 1].edges, 1, top,
                                              [dist |-> dist, prev |-> prev,
                                               pq |-> rest])} :
                                /\ sp_pc' = "loop"
                                /\ dist' = st.dist
                                /\ prev' = st.prev
                                /\ pq' = st.pq
    /\ UNCHANGED <<nodeIndex1, nodeIndex2, verbose, path, sp_ret, out>>
    /\ UNCHANGED graph_vars
    /\ UNCHANGED tq_vars

\* lines 184-191: the unreachable test, and the start of the reconstruction
SP_Check ==
    /\ sp_pc = "check"
    /\ IF prev[nodeIndex2] = -1
         THEN /\ sp_pc' = "done"
              /\ sp_ret' = -1
              /\ UNCHANGED u
         ELSE /\ sp_pc' = "walk"
              /\ u' = nodeIndex2
              /\ UNCHANGED sp_ret
    /\ UNCHANGED <<nodeIndex1, nodeIndex2, verbose, dist, prev, pq, path, out>>
    /\ UNCHANGED graph_vars
    /\ UNCHANGED tq_vars

Reverse(s) == [k \in 1..Len(s) |-> s[Len(s) + 1 - k]]

\* one piece of console output: what kind of text it is and the values
\* printed in it
OutLine(tag, n, qty, text, house, p) ==
    [tag |-> tag, n |-> n, qty |-> qty, text |-> text, house |-> house,
     path |-> p]

\* "The shortest path between nodes s and d:"
HeaderLine(s, d) == OutLine("header", s, 0, "", d, <<>>)
\* the nodes of the path, joined by " -> "
PathLine(p) == OutLine("path", 0, 0, "", 0, p)
\* "Path distance: x"
DistanceLine(x) == OutLine("distance", x, 0, "", 0, <<>>)
\* "Task n:"
TaskLine(n) == OutLine("task", n, 0, "", 0, <<>>)
\* "Robot r delivers q package(s) to house h, via: "
LegLine(r, q, text, h) == OutLine("leg", r, q, text, h, <<>>)
\* the endl after a leg
EndLine == OutLine("endl", 0, 0, "", 0, <<>>)

\* what lines 198-214 write to cout for the reconstructed path p
PrintPath(vb, p, s, d, distance) ==
    IF vb > 1
      THEN <<HeaderLine(s, d), PathLine(p), DistanceLine(distance)>>
      ELSE IF vb > 0 THEN <<PathLine(p)>> ELSE <<>>

\* lines 192-217: one iteration of while (u != -1); on exit the path is
\* reversed and printed and dist[nodeIndex2] is returned
SP_Walk ==
    /\ sp_pc = "walk"
    /\ IF u # -1
         THEN /\ path' = Append(path, u)
              /\ u' = prev[u]
              /\ UNCHANGED <<sp_pc, sp_ret, out>>
         ELSE /\ path' = Reverse(path)
              /\ out' = out \o PrintPath(verbose, Reverse(path), nodeIndex1,
                                         nodeIndex2, dist[nodeIndex2])
              /\ sp_ret' = dist[nodeIndex2]
              /\ sp_pc' = "done"
              /\ UNCHANGED u
    /\ UNCHANGED <<nodeIndex1, nodeIndex2, verbose, dist, prev, pq>>
    /\ UNCHANGED graph_vars
    /\ UNCHANGED tq_vars

\* the call's frame is gone once the caller has the result
SP_Leave ==
    /\ sp_pc' = "idle"
    /\ nodeIndex1' = -1 /\ nodeIndex2' = -1 /\ verbose' = 0
    /\ dist' = <<>> /\ prev' = <<>> /\ pq' = <<>> /\ u' = -1 /\ path' = <<>>
    /\ sp_ret' = 0

---------------------------------------------------------------------------
(* The shortest-path specification: a graph is built from a matrix and one *)
(* ShortestPath query runs on it, as main does for its example path.       *)

\* the weights of the symmetric family: 0 (no edge) and the odd weights
Weights == {0} \cup {w \in 1..MaxWeight : w % 2 = 1}

\* the unordered node pairs {a, b}, a < b, of an n-node graph
Pairs(n) == {p \in (0..n - 1) \X (0..n - 1) : p[1] < p[2]}

\* the symmetric n x n matrix with zero diagonal and weight w[<<a, b>>]
\* between a and b
SymmetricMatrix(n, w) ==
    [r \in 1..n |-> [c \in 1..n |->
        IF r = c THEN 0
        ELSE IF r < c THEN w[<<r - 1, c - 1>>] ELSE w[<<c - 1, r - 1>>]]]

SymmetricMatrices ==
    UNION {{SymmetricMatrix(n, w) : w \in [Pairs(n) -> Weights]} :
             n \in 1..MaxNodes}

\* largest number of rows of the ragged matrices
MaxRaggedNodes == 2

\* the rows of length len over the entries 0 and 1
Rows(len) == [1..len -> {0, 1}]

\* matrices of n rows whose rows have n - 1, n or n + 1 entries each
RaggedMatrices ==
    UNION {[1..n -> UNION {Rows(len) : len \in n - 1..n + 1}] :
             n \in 1..MaxRaggedNodes}

\* values of the verbose argument: silent, and main's 2
Verbosity == {0, 2}

InitCommon ==
    /\ graph = "unbuilt"
    /\ nodes = <<>>
    /\ SP_Idle
    /\ out = <<>>
    /\ orders = <<>>
    /\ robot = [id |-> 0, carrying_capacity |-> 0]
    /\ queue = <<>>
    /\ tq_pc = "none"
    /\ i_task = 0
    /\ i_leg = 0

InitPath ==
    /\ dist_matrix \in SymmetricMatrices \cup RaggedMatrices
    /\ InitCommon

\* main, line 443: a ShortestPath call on the built graph
Main_ShortestPath ==
    /\ tq_pc = "none"
    /\ \E s \in NodeIds, d \in NodeIds, vb \in Verbosity : SP_Call(s, d, vb)
    /\ UNCHANGED out
    /\ UNCHANGED graph_vars
    /\ UNCHANGED tq_vars

NextPath ==
    \/ Graph_Construct
    \/ Main_ShortestPath
    \/ SP_Loop
    \/ SP_Check
    \/ SP_Walk

SpecPath == InitPath /\ [][NextPath]_vars

\* the complete graphs on MaxNodes nodes: every pair is joined by an edge
CompleteMatrices ==
    {SymmetricMatrix(MaxNodes, w) : w \in [Pairs(MaxNodes) -> Weights \ {0}]}

\* the symmetric matrices of fewer than MaxNodes nodes, with any set of edges
SmallerMatrices ==
    UNION {{SymmetricMatrix(n, w) : w \in [Pairs(n) -> Weights]} :
             n \in 1..MaxNodes - 1}

InitPathFair ==
    /\ dist_matrix \in SmallerMatrices \cup CompleteMatrices \cup RaggedMatrices
    /\ InitCommon

\* ShortestPath is sequential code: once called, its next statement is
\* always executed, so each of its loops keeps taking steps while it can
SpecPathFair ==
    /\ InitPathFair
    /\ [][NextPath]_vars
    /\ WF_vars(SP_Loop)
    /\ WF_vars(SP_Check)
    /\ WF_vars(SP_Walk)

---------------------------------------------------------------------------
(* Paths of the built graph, by exhaustive enumeration *)

\* the weights of the edges from a to b in a's edge list
EdgeWeights(a, b) ==
    {nodes[a + 1].edges[k].distance :
        k \in {k \in 1..Len(nodes[a + 1].edges) :
                 nodes[a + 1].edges[k].node = b}}

HasEdge(a, b) == EdgeWeights(a, b) # {}

\* p starts at s, ends at d and follows existing edges
IsPath(p, s, d) ==
    /\ Len(p) >= 1
    /\ p[1] = s
    /\ p[Len(p)] = d
    /\ \A k \in 1..Len(p) - 1 : HasEdge(p[k], p[k + 1])

RECURSIVE PathWeightFrom(_, _)
PathWeightFrom(p, k) ==
    IF k >= Len(p) THEN 0
    ELSE (CHOOSE w \in EdgeWeights(p[k], p[k + 1]) : TRUE)
         + PathWeightFrom(p, k + 1)

\* the sum of the edge weights along p
PathWeight(p) == PathWeightFrom(p, 1)

\* every path from s to d over at most NumNodes nodes (every simple path is
\* one of them)
PathsBetween(s, d) ==
    {p \in UNION {[1..k -> NodeIds] : k \in 1..NumNodes} : IsPath(p, s, d)}

Reachable(s, d) == PathsBetween(s, d) # {}

\* a ShortestPath call has returned
SP_Returned == sp_pc = "done"

---------------------------------------------------------------------------
(* Claims about Graph::ShortestPath *)

\* C1: for s # d with d reachable from s, the returned distance is the weight
\* of the reconstructed path, which leads from s to d along existing edges,
\* and no path from s to d weighs less.
C1_ShortestPathIsShortest ==
    (SP_Returned /\ nodeIndex1 # nodeIndex2
                 /\ Reachable(nodeIndex1, nodeIndex2))
    => /\ IsPath(path, nodeIndex1, nodeIndex2)
       /\ sp_ret = PathWeight(path)
       /\ \A p \in PathsBetween(nodeIndex1, nodeIndex2) :
             PathWeight(p) >= sp_ret

\* C2: ShortestPath(s, s) returns 0 and its path is the single node s.
C2_SameNodeIsZero ==
    (SP_Returned /\ nodeIndex1 = nodeIndex2)
    => (sp_ret = 0 /\ path = <<nodeIndex1>>)

\* C3: ShortestPath returns -1 with no path printed when no path leads from
\* s to d, and returns -1 only then.
C3_UnreachableSentinel ==
    SP_Returned
    => /\ (~Reachable(nodeIndex1, nodeIndex2)
             => (sp_ret = -1 /\ path = <<>> /\ out = <<>>))
       /\ (sp_ret = -1 => ~Reachable(nodeIndex1, nodeIndex2))

---------------------------------------------------------------------------
(* Graph::UpdateOrders and Graph::GetOrderList *)

\* bound on the values rand() yields (the program's bound is RAND_MAX)
MaxRand == 4

\* mutant of RandomOrders: the modulo is missing
RandomOrders_NoModulo == 0..MaxRand

\* int order = rand() % 3, over every value rand() can yield
RandomOrders == {r % 3 : r \in 0..MaxRand}

\* the first node UpdateOrders' loop visits: i = 1 excludes the store
FirstHouse == 1

\* UpdateOrders: every node from FirstHouse on gets a fresh order count
UpdatedNodes(ns, order) ==
    [k \in 1..Len(ns) |->
        IF k - 1 >= FirstHouse
          THEN [ns[k] EXCEPT !.num_orders = order[k - 1]]
          ELSE ns[k]]

Graph_UpdateOrders ==
    /\ graph = "built"
    /\ \E order \in [FirstHouse..NumNodes - 1 -> RandomOrders] :
          nodes' = UpdatedNodes(nodes, order)
    /\ UNCHANGED <<dist_matrix, graph, out>>
    /\ UNCHANGED sp_vars

\* GetOrderList: (GetId(), GetNumOrders()) of every node, in vector order
GetOrderList(ns) ==
    [k \in 1..Len(ns) |-> [first |-> ns[k].id, second |-> ns[k].num_orders]]

---------------------------------------------------------------------------
(* TaskQueue::TaskQueue *)

\* mutant of ExceedsCapacity: a group is closed when it would become full
ExceedsCapacity_WhenFull(total_weight, order, capacity) ==
    total_weight + order.second >= capacity

\* the test that closes the current group before `order` is added
ExceedsCapacity(total_weight, order, capacity) ==
    total_weight + order.second > capacity

\* the body of the constructor's loop for one order; st holds
\* delivery_groups, group and total_weight
SplitStep(st, order, capacity) ==
    IF order.second # 0
      THEN LET closed == IF ExceedsCapacity(st.total_weight, order, capacity)
                           THEN [delivery_groups |->
                                     Append(st.delivery_groups, st.group),
                                 group |-> <<>>,
                                 total_weight |-> 0]
                           ELSE st
           IN  [delivery_groups |-> closed.delivery_groups,
                group |-> Append(closed.group, order),
                total_weight |-> closed.total_weight + order.second]
      ELSE st

RECURSIVE SplitLoop(_, _, _, _)
\* for (pair<int,int> order : orders), from order k on
SplitLoop(os, k, st, capacity) ==
    IF k > Len(os) THEN st
    ELSE SplitLoop(os, k + 1, SplitStep(st, os[k], capacity), capacity)

\* mutant of DeliveryGroups: the last group is not flushed
DeliveryGroups_NoFlush(os, capacity) ==
    SplitLoop(os, 1,
              [delivery_groups |-> <<>>, group |-> <<>>, total_weight |-> 0],
              capacity).delivery_groups

\* delivery_groups after the loop and the flush of a non-empty last group
DeliveryGroups(os, capacity) ==
    LET st == SplitLoop(os, 1,
                        [delivery_groups |-> <<>>, group |-> <<>>,
                         total_weight |-> 0],
                        capacity)
    IN  IF st.group # <<>>
          THEN Append(st.delivery_groups, st.group)
          ELSE st.delivery_groups

\* one Task per delivery group, in order
BuildQueue(os, r) ==
    LET groups == DeliveryGroups(os, r.carrying_capacity) IN
    [k \in 1..Len(groups) |->
        [robot_id |-> r.id, delivery_orders |-> groups[k]]]

TaskQueue_Construct(os, r) ==
    /\ tq_pc = "none"
    /\ orders' = os
    /\ robot' = r
    /\ queue' = BuildQueue(os, r)
    /\ tq_pc' = "built"
    /\ UNCHANGED <<i_task, i_leg, out>>
    /\ UNCHANGED graph_vars
    /\ UNCHANGED sp_vars

---------------------------------------------------------------------------
(* TaskQueue::PerformTasks and Task::DisplayPath *)

\* PerformTasks is entered
PerformTasks_Call ==
    /\ tq_pc = "built"
    /\ tq_pc' = "tasks"
    /\ i_task' = 0
    /\ UNCHANGED <<orders, robot, queue, i_leg, out>>
    /\ UNCHANGED graph_vars
    /\ UNCHANGED sp_vars

\* mutant of Cleared: the queue is not cleared
Cleared_Kept(q) == q

\* what _queue.clear() leaves of the queue
Cleared(q) == <<>>

\* lines 333-337: the loop test; either "Task i+1:" is printed and
\* DisplayPath entered for _queue[i], or the queue is cleared and the call
\* returns
PerformTasks_Loop ==
    /\ tq_pc = "tasks"
    /\ IF i_task < Len(queue)
         THEN /\ out' = Append(out, TaskLine(i_task + 1))
              /\ tq_pc' = "display"
              /\ i_leg' = 0
              /\ UNCHANGED <<queue, i_task>>
         ELSE /\ queue' = Cleared(queue)
              /\ tq_pc' = "built"
              /\ i_task' = 0
              /\ UNCHANGED <<i_leg, out>>
    /\ UNCHANGED <<orders, robot>>
    /\ UNCHANGED graph_vars
    /\ UNCHANGED sp_vars

\* lines 272-277
PkgStr(order) == IF order.second = 1 THEN "package" ELSE "packages"

\* mutant of PrevNode: every leg starts at the depot
PrevNode_AlwaysDepot(dorders, i) == 0

\* lines 279-284: the stop before delivery i (0-based) of the task
PrevNode(dorders, i) == IF i = 0 THEN 0 ELSE dorders[i].first

\* the task DisplayPath is running on
CurrentTask == queue[i_task + 1]

\* lines 271-289: the loop test of DisplayPath; either the leg's line is
\* printed and ShortestPath called with verbose 1, or DisplayPath returns
\* and PerformTasks' i++ runs
DisplayPath_Loop ==
    /\ tq_pc = "display"
    /\ LET dorders == CurrentTask.delivery_orders IN
       IF i_leg < Len(dorders)
         THEN LET order == dorders[i_leg + 1] IN
              /\ out' = Append(out, LegLine(CurrentTask.robot_id,
                                            order.second, PkgStr(order),
                                            order.first))
              /\ SP_Call(PrevNode(dorders, i_leg), order.first, 1)
              /\ tq_pc' = "leg"
              /\ UNCHANGED <<i_task, i_leg>>
         ELSE /\ tq_pc' = "tasks"
              /\ i_task' = i_task + 1
              /\ i_leg' = 0
              /\ UNCHANGED out
              /\ UNCHANGED sp_vars
    /\ UNCHANGED <<orders, robot, queue>>
    /\ UNCHANGED graph_vars

\* line 290: ShortestPath has returned; endl is printed and i++ runs
DisplayPath_Next ==
    /\ tq_pc = "leg"
    /\ sp_pc = "done"
    /\ SP_Leave
    /\ out' = Append(out, EndLine)
    /\ i_leg' = i_leg + 1
    /\ tq_pc' = "display"
    /\ UNCHANGED <<orders, robot, queue, i_task>>
    /\ UNCHANGED graph_vars

---------------------------------------------------------------------------
(* generate_dist_matrix with its default connectivity 0.0: the ring        *)

Max(S) == CHOOSE x \in S : \A y \in S : y <= x

\* lines 357-366: entry (a, b) holds the weight of the last ring step i that
\* wrote it as matrix[i][j] or matrix[j][i], j = (i + 1) % size
generate_dist_matrix(size, ring) ==
    [r \in 1..size |-> [c \in 1..size |->
        LET a == r - 1
            b == c - 1
            writers == {i \in 0..size - 1 :
                          \/ (a = i /\ b = (i + 1) % size)
                          \/ (b = i /\ a = (i + 1) % size)}
        IN  IF writers = {} THEN 0 ELSE ring[Max(writers)]]]

---------------------------------------------------------------------------
(* The delivery specification: main's days.  A graph is built from a       *)
(* generated matrix; each day the orders are updated, a TaskQueue is built *)
(* from GetOrderList() and the robot, and PerformTasks runs on it.         *)

\* const Robot robot(101, 3)
RobotId == 101
CarryingCapacity == 3

Init ==
    /\ dist_matrix \in
         {generate_dist_matrix(MaxHouses + 1, ring) :
            ring \in [0..MaxHouses -> 0..MaxRingWeight]}
    /\ InitCommon

\* graph.UpdateOrders(i)
Main_UpdateOrders ==
    /\ tq_pc = "none"
    /\ Graph_UpdateOrders
    /\ UNCHANGED tq_vars

\* TaskQueue taskQueue(graph.GetOrderList(), robot)
Main_TaskQueue ==
    /\ graph = "built"
    /\ TaskQueue_Construct(GetOrderList(nodes),
                           [id |-> RobotId,
                            carrying_capacity |-> CarryingCapacity])

\* the end of the loop body: taskQueue is destroyed; the model follows the
\* console one day at a time
Main_EndDay ==
    /\ tq_pc = "built"
    /\ tq_pc' = "none"
    /\ queue' = <<>>
    /\ orders' = <<>>
    /\ robot' = [id |-> 0, carrying_capacity |-> 0]
    /\ out' = <<>>
    /\ UNCHANGED <<i_task, i_leg>>
    /\ UNCHANGED graph_vars
    /\ UNCHANGED sp_vars

Next ==
    \/ Graph_Construct
    \/ Main_UpdateOrders
    \/ Main_TaskQueue
    \/ PerformTasks_Call
    \/ PerformTasks_Loop
    \/ DisplayPath_Loop
    \/ DisplayPath_Next
    \/ SP_Loop
    \/ SP_Check
    \/ SP_Walk
    \/ Main_EndDay

Spec == Init /\ [][Next]_vars

---------------------------------------------------------------------------
(* The batching specification: the TaskQueue constructor on any order      *)
(* vector and any robot                                                    *)

\* longest order vector
MaxOrders == 3
\* largest house id in an order
MaxHouseId == 3
\* largest quantity of one order
MaxQuantity == 3
\* largest carrying capacity
MaxCapacity == 3

OrderVectors ==
    UNION {[1..n -> [first : 1..MaxHouseId, second : 0..MaxQuantity]] :
             n \in 0..MaxOrders}

InitBatch ==
    /\ dist_matrix = <<>>
    /\ graph = "unbuilt"
    /\ nodes = <<>>
    /\ SP_Idle
    /\ out = <<>>
    /\ orders \in OrderVectors
    /\ robot \in [id : {RobotId}, carrying_capacity : 1..MaxCapacity]
    /\ queue = <<>>
    /\ tq_pc = "none"
    /\ i_task = 0
    /\ i_leg = 0

\* TaskQueue taskQueue(orders, robot)
Batch_TaskQueue == TaskQueue_Construct(orders, robot)

NextBatch == Batch_TaskQueue

SpecBatch == InitBatch /\ [][NextBatch]_vars

---------------------------------------------------------------------------
(* Claims about the TaskQueue constructor (SpecBatch) *)

RECURSIVE QuantitySum(_, _)
QuantitySum(os, k) ==
    IF k > Len(os) THEN 0 ELSE os[k].second + QuantitySum(os, k + 1)

\* the sum of the quantities of a sequence of orders
Quantity(os) == QuantitySum(os, 1)

RECURSIVE ConcatFrom(_, _)
ConcatFrom(q, k) ==
    IF k > Len(q) THEN <<>> ELSE q[k].delivery_orders \o ConcatFrom(q, k + 1)

\* the delivery orders of all tasks of q, in queue order
AllDeliveries(q) == ConcatFrom(q, 1)

IsNonZero(order) == order.second # 0

\* the constructor has run
TQ_Built == tq_pc = "built"

\* C4: every Task the constructor builds has quantities summing to at most
\* the robot's carrying capacity.
C4_TaskWithinCapacity ==
    TQ_Built
    => \A k \in 1..Len(queue) :
          Quantity(queue[k].delivery_orders) <= robot.carrying_capacity

\* C5: the tasks' delivery orders, concatenated in queue order, are the input
\* orders with the zero-quantity entries removed.
C5_OrderPreservingPartition ==
    TQ_Built => AllDeliveries(queue) = SelectSeq(orders, IsNonZero)

\* C5's case: an input with a zero-quantity entry that is split over several
\* tasks
C5_Witness ==
    /\ TQ_Built
    /\ Len(queue) >= 2
    /\ Len(orders) = MaxOrders
    /\ \E k \in 1..Len(orders) : orders[k].second = 0

\* the orders and the batches of the example of C6
ExampleOrders ==
    <<[first |-> 1, second |-> 2], [first |-> 2, second |-> 2],
      [first |-> 3, second |-> 1]>>
ExampleBatches ==
    <<<<[first |-> 1, second |-> 2]>>,
      <<[first |-> 2, second |-> 2], [first |-> 3, second |-> 1]>>>>

\* C6: greedy batching.  A batch is never closed early (within a batch every
\* order fitted on top of the ones before it), it is closed only because the
\* next order did not fit (the sum of a batch plus the first order of the
\* next batch exceeds the capacity), a non-empty last batch is emitted, and
\* the example gives the stated batches.
C6_GreedyBatching ==
    TQ_Built
    => LET C == robot.carrying_capacity
           batch(k) == queue[k].delivery_orders
       IN  /\ \A k \in 1..Len(queue) : \A j \in 2..Len(batch(k)) :
                 Quantity(SubSeq(batch(k), 1, j)) <= C
           /\ \A k \in 1..Len(queue) - 1 :
                 /\ batch(k + 1) # <<>>
                 /\ Quantity(batch(k)) + batch(k + 1)[1].second > C
           /\ SelectSeq(orders, IsNonZero) # <<>>
                 => (queue # <<>> /\ batch(Len(queue)) # <<>>)
           /\ (orders = ExampleOrders /\ C = CarryingCapacity)
                 => [k \in 1..Len(queue) |-> batch(k)] = ExampleBatches

\* C6's case: the example
C6_Witness ==
    /\ TQ_Built
    /\ orders = ExampleOrders
    /\ robot.carrying_capacity = CarryingCapacity
    /\ Len(queue) = 2

---------------------------------------------------------------------------
(* Claims about PerformTasks and DisplayPath (Spec) *)

IsReportLine(line) == line.tag \in {"task", "leg"}

\* the "Task n:" and delivery lines of the console, in order
ReportLines(o) == SelectSeq(o, IsReportLine)

\* the delivery lines of a task: one per delivery order, in order
LegLinesOf(task) ==
    [j \in 1..Len(task.delivery_orders) |->
        LegLine(task.robot_id, task.delivery_orders[j].second,
                IF task.delivery_orders[j].second = 1
                  THEN "package" ELSE "packages",
                task.delivery_orders[j].first)]

RECURSIVE ReportFrom(_, _, _)
\* the report of tasks k..upto of q: for each, "Task k:" and its deliveries
ReportFrom(q, k, upto) ==
    IF k > upto THEN <<>>
    ELSE <<TaskLine(k)>> \o LegLinesOf(q[k]) \o ReportFrom(q, k + 1, upto)

\* the queue as the constructor built it from its arguments
BuiltQueue == BuildQueue(orders, robot)

\* C7: PerformTasks reports every task once, in queue order, and leaves the
\* queue empty; a later call on the same TaskQueue reports nothing more.
\* Between calls the queue is either untouched with nothing reported, or
\* empty with exactly the built tasks reported; inside a call the tasks
\* before index i have been reported and the queue is still whole.
C7_TasksReportedOnce ==
    /\ (tq_pc = "built" /\ queue # <<>>)
          => (queue = BuiltQueue /\ ReportLines(out) = <<>>)
    /\ (tq_pc \in {"built", "tasks"} /\ queue = <<>>)
          => ReportLines(out) = ReportFrom(BuiltQueue, 1, Len(BuiltQueue))
    /\ (tq_pc = "tasks" /\ queue # <<>>)
          => /\ queue = BuiltQueue
             /\ i_task <= Len(queue)
             /\ ReportLines(out) = ReportFrom(queue, 1, i_task)

\* C7's case: a second PerformTasks call is running on a queue that the
\* first call reported (several tasks) and emptied
C7_Witness ==
    /\ tq_pc = "tasks"
    /\ queue = <<>>
    /\ Len(BuiltQueue) >= 2
    /\ out # <<>>

\* C8: DisplayPath prints one delivery line per delivery of the task, in
\* order, each followed by a ShortestPath call from the previous stop (the
\* depot, node 0, for the first delivery; the previous delivery's house
\* otherwise) to the delivery's house.
C8_LegsFollowDeliveries ==
    tq_pc \in {"display", "leg"}
    => LET task    == queue[i_task + 1]
           dorders == task.delivery_orders
           started == IF tq_pc = "leg" THEN i_leg + 1 ELSE i_leg
       IN  /\ started <= Len(dorders)
           /\ ReportLines(out) =
                 ReportFrom(queue, 1, i_task) \o <<TaskLine(i_task + 1)>>
                 \o SubSeq(LegLinesOf(task), 1, started)
           /\ tq_pc = "leg"
                 => /\ sp_pc # "idle"
                    /\ nodeIndex2 = dorders[i_leg + 1].first
                    /\ nodeIndex1 = IF i_leg = 0 THEN 0
                                    ELSE dorders[i_leg].first

\* C8's case: the query of a later delivery of a task has returned
C8_Witness ==
    /\ tq_pc = "leg"
    /\ i_leg >= 1
    /\ sp_pc = "done"
    /\ nodeIndex1 # 0

---------------------------------------------------------------------------
(* Claims about Graph::Graph, UpdateOrders and GetOrderList *)

\* C9: constructing a Graph from a matrix that is not square fails with
\* InvalidInputError; no graph is built from it.
C9_NonSquareRejected ==
    (graph # "unbuilt" /\ ~IsSquare(dist_matrix))
    => graph = "InvalidInputError"

\* C10: the depot has order quantity 0, every other node a quantity in
\* {0, 1, 2}, and GetOrderList gives (index, quantity) for all nodes in index
\* order, the depot included; the TaskQueue is built from that list.
C10_OrderQuantities ==
    graph = "built"
    => /\ nodes[1].num_orders = 0
       /\ \A k \in 2..NumNodes : nodes[k].num_orders \in {0, 1, 2}
       /\ GetOrderList(nodes) =
             [k \in 1..NumNodes |->
                 [first |-> k - 1, second |-> nodes[k].num_orders]]
       /\ tq_pc # "none" => orders = GetOrderList(nodes)

\* C10's case: a TaskQueue was built from updated orders, with houses
\* holding 2, 1 and 0 orders
C10_Witness ==
    /\ graph = "built"
    /\ tq_pc = "built"
    /\ \E k \in 2..NumNodes : nodes[k].num_orders = 2
    /\ \E k \in 2..NumNodes : nodes[k].num_orders = 1
    /\ nodes[NumNodes].num_orders = 0

---------------------------------------------------------------------------
(* Claims about the frontier of Graph::ShortestPath (SpecPath) *)

\* the loop is about to extract: pq.top() is the node the next iteration pops
SP_AboutToPop == sp_pc = "loop" /\ pq # <<>>

\* the loop stopped early because the destination was popped
SP_PoppedDestination == sp_pc = "check" /\ u = nodeIndex2

\* C11: every extraction returns a node whose tentative distance is minimal
\* among the entries of the frontier at that moment, and when the destination
\* is popped its tentative distance is final: no path from the source weighs
\* less.
C11_ExtractsMinimum ==
    /\ SP_AboutToPop
          => \A k \in 1..Len(pq) : dist[PqTop(pq)] <= dist[pq[k]]
    /\ SP_PoppedDestination
          => \A p \in PathsBetween(nodeIndex1, nodeIndex2) :
                PathWeight(p) >= dist[nodeIndex2]

---------------------------------------------------------------------------
(* Claims about the batches of the TaskQueue constructor (SpecBatch) *)

\* C13: every Task the constructor puts in the queue holds at least one
\* delivery order: no empty batch is emitted, also when the first non-zero
\* order alone exceeds the capacity.
C13_NoEmptyTask ==
    TQ_Built => \A k \in 1..Len(queue) : queue[k].delivery_orders # <<>>

---------------------------------------------------------------------------
(* Termination of Graph::ShortestPath (SpecPathFair) *)

\* every edge the constructor materialized has a positive weight
PositiveEdges ==
    \A k \in 1..Len(nodes) : \A e \in 1..Len(nodes[k].edges) :
        nodes[k].edges[e].distance > 0

\* no node occurs twice in p
NoRepeat(p) == \A a, b \in 1..Len(p) : a # b => p[a] # p[b]

\* the frontier loop is over: the frontier is empty or the destination was
\* popped
SP_LoopEnded == sp_pc = "check" /\ (pq = <<>> \/ u = nodeIndex2)

\* the predecessor walk is over: it ran from the destination back to the
\* source, whose predecessor is -1
SP_WalkEnded ==
    /\ sp_pc = "done"
    /\ u = -1
    /\ path # <<>>
    /\ path[1] = nodeIndex1
    /\ path[Len(path)] = nodeIndex2

\* C12: on a graph with positive edge weights, a ShortestPath call on an
\* in-range pair terminates: the frontier loop ends with the frontier empty or
\* the destination popped, the call then returns, a predecessor walk that was
\* started reaches the source, and no walk visits a node twice.
C12_Terminates ==
    /\ (sp_pc = "loop" /\ PositiveEdges) ~> SP_LoopEnded
    /\ (sp_pc = "check" /\ PositiveEdges) ~> (sp_pc = "done")
    /\ (sp_pc = "walk" /\ PositiveEdges) ~> SP_WalkEnded
    /\ [](sp_pc \in {"walk", "done"} /\ PositiveEdges => NoRepeat(path))

\* C12's case: a query stopped early on popping the destination, with nodes
\* still in the frontier, and its walk went through at least three nodes back
\* to the source
C12_Witness ==
    /\ SP_WalkEnded
    /\ PositiveEdges
    /\ pq # <<>>
    /\ Len(path) >= 3

=============================================================================
